---- MODULE Spec2Model ----
(***************************************************************************)
(* Model of tskill's SkillManager (src/tskill/src/skill_manager/manager.py)*)
(* over a small filesystem: a source tree and a target tree, each holding  *)
(* one directory entry per skill name, plus a few fixed paths outside both *)
(* trees that symbolic links may point to.                                 *)
(***************************************************************************)
EXTENDS Integers, Sequences, FiniteSets, TLC

\* ------------------------------------------------------------------------
\* Bounds
\* ------------------------------------------------------------------------
\* The skill names that occur in either tree.
Names == {"a", "B"}

\* Number of calls made on the manager in one run.
MaxCalls == 3

\* Longest chain of symbolic links followed before a lookup gives up (ELOOP).
MaxLinkHops == 4

\* ------------------------------------------------------------------------
\* Paths and directory entries
\* ------------------------------------------------------------------------
\* A path is a sequence of components below an abstract root:
\*   <<"src", n>>  source_dir / n        <<"tgt", n>>  target_dir / n
\*   <<"ext", "dir">>, <<"ext", "file">>  an existing directory / file outside
\*   <<"ext", "missing">>                 a path at which nothing exists
\* and any of them followed by "sub", a child directory that every directory
\* of the model contains: a nested skill directory with a SKILL.md of its own
\* and no further children.  What a link holds may also be relative:
\*   <<".", n>>    the entry n of the directory the link itself is in
SourcePath(n) == <<"src", n>>

TargetPath(n) == <<"tgt", n>>

EmptyPath == << >>

LoopPath == <<"eloop">>

\* Every entry is a record of the same shape.  origin names where a directory
\* or file was when the run started: it identifies the contents.
Absent == [kind |-> "absent", manifest |-> "none", origin |-> EmptyPath, dest |-> EmptyPath]

File(o) == [kind |-> "file", manifest |-> "none", origin |-> o, dest |-> EmptyPath]

Dir(m, o) == [kind |-> "dir", manifest |-> m, origin |-> o, dest |-> EmptyPath]

Link(d) == [kind |-> "link", manifest |-> "none", origin |-> EmptyPath, dest |-> d]

\* SKILL.md of a directory: "valid" passes every test of _get_directories,
\* "invalid" fails one of them (missing file, no closing ---, missing field).
ManifestKinds == {"valid", "invalid"}

ExtDir == Dir("valid", <<"ext", "dir">>)

SubDir(o) == Dir("valid", o)

\* lstat: the entry at exactly path p, following links in the parent
\* components (done by the caller through Resolve) but not in the last one.
TopEntry(s, t, p) ==
    IF Len(p) # 2 THEN Absent
    ELSE IF p[1] = "src" /\ p[2] \in DOMAIN s THEN s[p[2]]
    ELSE IF p[1] = "tgt" /\ p[2] \in DOMAIN t THEN t[p[2]]
    ELSE IF p = <<"ext", "dir">> THEN ExtDir
    ELSE IF p = <<"ext", "file">> THEN File(p)
    ELSE Absent

\* Where the link at path p leads when it holds d: a relative d is taken
\* from the directory the link is in.
Destination(p, d) == IF d[1] = "." THEN <<p[1]>> \o Tail(d) ELSE d

\* Path.resolve(): follow symbolic links; the result names a real location,
\* which need not exist (strict=False).
RECURSIVE ResolveFuel(_, _, _, _)
ResolveFuel(s, t, p, fuel) ==
    IF fuel = 0 \/ Len(p) < 2 THEN LoopPath
    ELSE IF Len(p) > 2
         THEN LET par == ResolveFuel(s, t, SubSeq(p, 1, 2), fuel)
              IN  IF par = LoopPath THEN LoopPath ELSE par \o SubSeq(p, 3, Len(p))
         ELSE LET e == TopEntry(s, t, p)
              IN  IF e.kind = "link"
                  THEN ResolveFuel(s, t, Destination(p, e.dest), fuel - 1)
                  ELSE p

Resolve(s, t, p) == ResolveFuel(s, t, p, MaxLinkHops)

\* stat: the entry a path leads to after following every link.
RealEntry(s, t, p) ==
    LET r == Resolve(s, t, p)
    IN  IF r = LoopPath THEN Absent
        ELSE IF Len(r) = 2 THEN TopEntry(s, t, r)
        ELSE IF Len(r) = 3 /\ r[3] = "sub" /\ TopEntry(s, t, SubSeq(r, 1, 2)).kind = "dir"
             THEN SubDir(r)
        ELSE Absent

\* Path.exists(), Path.is_dir(): both follow links, so a dangling link
\* "does not exist".  Path.is_symlink() looks at the entry itself.
Exists(s, t, p) == RealEntry(s, t, p).kind # "absent"

IsDir(s, t, p) == RealEntry(s, t, p).kind = "dir"

IsSymlink(s, t, p) == TopEntry(s, t, p).kind = "link"

\* p is q or lies below it (q in p.parents or q = p).
IsPrefix(q, p) == Len(q) <= Len(p) /\ SubSeq(p, 1, Len(q)) = q

\* ------------------------------------------------------------------------
\* models.py
\* ------------------------------------------------------------------------
ACTIVE == "active"

INACTIVE == "inactive"

UNMANAGED == "unmanaged"

SkillStatus == {ACTIVE, INACTIVE, UNMANAGED}

Skill(n, st, sp, tp) == [name |-> n, status |-> st, source_path |-> sp, target_path |-> tp]

\* ------------------------------------------------------------------------
\* SkillManager: reading
\* ------------------------------------------------------------------------
\* _get_directories(root): the names d under root with d.is_dir() (a link to
\* a directory counts) whose SKILL.md passes the front-matter tests.
GetDirectories(s, t, root) ==
    {n \in Names : /\ IsDir(s, t, <<root, n>>)
                   /\ RealEntry(s, t, <<root, n>>).manifest = "valid"}

\* GetSkillStatus that takes any symbolic link at target_path for an active one.
GetSkillStatusAnyLink(s, t, source_path, target_path) ==
    IF ~Exists(s, t, source_path) THEN UNMANAGED
    ELSE IF ~Exists(s, t, target_path) THEN INACTIVE
    ELSE IF IsSymlink(s, t, target_path) THEN ACTIVE
    ELSE UNMANAGED

\* get_skill_status(skill_name, source_path, target_path)
GetSkillStatus(s, t, source_path, target_path) ==
    IF ~Exists(s, t, source_path) THEN UNMANAGED
    ELSE IF ~Exists(s, t, target_path) THEN INACTIVE
    ELSE IF IsSymlink(s, t, target_path)
              /\ Resolve(s, t, target_path) # LoopPath
              /\ IsPrefix(Resolve(s, t, source_path), Resolve(s, t, target_path))
         THEN ACTIVE
    ELSE UNMANAGED

\* str.lower() and the order of the resulting strings, for one-letter names.
Lower(n) ==
    CASE n = "B" -> "b"
      [] OTHER -> n

Ord(c) ==
    CASE c = "a" -> 97
      [] c = "b" -> 98
      [] c = "B" -> 66
      [] c = "h" -> 104
      [] c = "p" -> 112
      [] OTHER -> 0

\* sorted(skills, key=lambda s: s.name): the order of the names as written.
RECURSIVE SortedByRawName(_)
SortedByRawName(skills) ==
    IF skills = {} THEN << >>
    ELSE LET first == CHOOSE k \in skills :
                        \A o \in skills : Ord(k.name) <= Ord(o.name)
         IN  <<first>> \o SortedByRawName(skills \ {first})

\* sorted(skills, key=lambda s: s.name.lower())
RECURSIVE SortedByLowerName(_)
SortedByLowerName(skills) ==
    IF skills = {} THEN << >>
    ELSE LET first == CHOOSE k \in skills :
                        \A o \in skills : Ord(Lower(k.name)) <= Ord(Lower(o.name))
         IN  <<first>> \o SortedByLowerName(skills \ {first})

\* ScanSkills whose second loop does not skip the names of the source skills.
ScanSkillsNoSkip(s, t) ==
    LET source_skills == GetDirectories(s, t, "src")
        target_skills == GetDirectories(s, t, "tgt")
        fromSource == {Skill(n, GetSkillStatus(s, t, SourcePath(n), TargetPath(n)),
                             SourcePath(n), TargetPath(n)) : n \in source_skills}
        fromTarget == {Skill(n, UNMANAGED, EmptyPath, TargetPath(n)) : n \in target_skills}
    IN  SortedByLowerName(fromSource \cup fromTarget)

\* scan_skills(): one Skill per source skill, then one UNMANAGED Skill with an
\* empty source_path per target skill not among the source skills.
ScanSkills(s, t) ==
    LET source_skills == GetDirectories(s, t, "src")
        target_skills == GetDirectories(s, t, "tgt")
        fromSource == {Skill(n, GetSkillStatus(s, t, SourcePath(n), TargetPath(n)),
                             SourcePath(n), TargetPath(n)) : n \in source_skills}
        fromTarget == {Skill(n, UNMANAGED, EmptyPath, TargetPath(n)) :
                             n \in target_skills \ source_skills}
    IN  SortedByLowerName(fromSource \cup fromTarget)

\* The entries of a scan result that carry name n, and the status scan reports
\* for n ("none" when n is not listed).
Reported(scan, n) == {i \in DOMAIN scan : scan[i].name = n}

ReportedStatus(scan, n) ==
    IF Reported(scan, n) = {} THEN "none"
    ELSE scan[CHOOSE i \in Reported(scan, n) : TRUE].status

\* ------------------------------------------------------------------------
\* SkillManager: mutations.  Each yields the value returned or the exception
\* raised, and the two trees as the call leaves them.
\* ------------------------------------------------------------------------
Outcome(r, s, t) == [ret |-> r, src |-> s, tgt |-> t]

\* Rmtree handed source_path instead of target_path.
RmtreeSourcePath(s, t, x) ==
    Outcome("ok", [s EXCEPT ![x] = Absent], [t EXCEPT ![x] = Absent])

\* shutil.rmtree(target_path): refuses a symbolic link with OSError,
\* otherwise removes the directory and everything below it.
Rmtree(s, t, x) ==
    IF IsSymlink(s, t, TargetPath(x))
    THEN Outcome("OSError", s, t)
    ELSE Outcome("ok", s, [t EXCEPT ![x] = Absent])

\* Unlink that clears every symbolic link and file of the target tree.
UnlinkWholeTree(s, t, x) ==
    Outcome("ok", s, [n \in DOMAIN t |-> IF t[n].kind \in {"link", "file"} THEN Absent ELSE t[n]])

\* target_path.unlink(): removes a file or a symbolic link.
Unlink(s, t, x) == Outcome("ok", s, [t EXCEPT ![x] = Absent])

\* if target_path.exists(): rmtree if target_path.is_dir() else unlink
RemoveExistingTarget(s, t, x) ==
    IF ~Exists(s, t, TargetPath(x)) THEN Outcome("ok", s, t)
    ELSE IF IsDir(s, t, TargetPath(x)) THEN Rmtree(s, t, x)
    ELSE Unlink(s, t, x)

\* os.symlink(source_path, target_path): fails when any entry, a dangling
\* link included, is already at target_path.
Symlink(s, t, x) ==
    IF TopEntry(s, t, TargetPath(x)).kind # "absent"
    THEN Outcome("FileExistsError", s, t)
    ELSE Outcome("True", s, [t EXCEPT ![x] = Link(SourcePath(x))])

\* ActivateSkill that clears the target path before it looks for the source.
ActivateSkillRemovesFirst(s, t, x) ==
    LET rm == RemoveExistingTarget(s, t, x)
    IN  IF ~Exists(s, t, SourcePath(x)) THEN Outcome("FileNotFoundError", rm.src, rm.tgt)
        ELSE IF rm.ret # "ok" THEN rm ELSE Symlink(rm.src, rm.tgt, x)

\* activate_skill(skill_name)
ActivateSkill(s, t, x) ==
    IF ~Exists(s, t, SourcePath(x)) THEN Outcome("FileNotFoundError", s, t)
    ELSE LET rm == RemoveExistingTarget(s, t, x)
         IN  IF rm.ret # "ok" THEN rm ELSE Symlink(rm.src, rm.tgt, x)

\* DeactivateSkill without the is_symlink() test: whatever exists is removed.
DeactivateSkillAnyEntry(s, t, x) ==
    IF ~Exists(s, t, TargetPath(x)) THEN Outcome("False", s, t)
    ELSE Outcome("True", s, [t EXCEPT ![x] = Absent])

\* deactivate_skill(skill_name)
DeactivateSkill(s, t, x) ==
    IF ~Exists(s, t, TargetPath(x)) THEN Outcome("False", s, t)
    ELSE IF IsSymlink(s, t, TargetPath(x))
         THEN Outcome("True", s, [t EXCEPT ![x] = Absent])
    ELSE Outcome("False", s, t)

\* Move that copies without removing the original.
MoveLeavesOriginal(s, t, x) == Outcome("ok", [s EXCEPT ![x] = t[x]], t)

\* shutil.move(target_path, source_path) when nothing is at source_path:
\* os.rename carries the entry itself (directory, file or link) across.
Move(s, t, x) == Outcome("ok", [s EXCEPT ![x] = t[x]], [t EXCEPT ![x] = Absent])

\* ManageSkill that moves the target entry over the source whether or not a
\* source exists (the rmtree(source_path) of its second branch made live).
ManageSkillAlwaysMoves(s, t, x) ==
    IF ~Exists(s, t, TargetPath(x)) THEN Outcome("FileNotFoundError", s, t)
    ELSE LET step == Move(s, t, x)
         IN  Symlink(step.src, step.tgt, x)

\* manage_skill(skill_name)
ManageSkill(s, t, x) ==
    IF ~Exists(s, t, TargetPath(x)) THEN Outcome("FileNotFoundError", s, t)
    ELSE LET step == IF Exists(s, t, SourcePath(x))
                     THEN RemoveExistingTarget(s, t, x)
                     ELSE Move(s, t, x)
         IN  IF step.ret # "ok" THEN step ELSE Symlink(step.src, step.tgt, x)

\* ------------------------------------------------------------------------
\* State: the two trees, and the last two calls made on the manager
\* ------------------------------------------------------------------------
VARIABLES src, tgt, last, prev, calls, probe, pc, cache, cli

vars == <<src, tgt, last, prev, calls, probe, pc, cache, cli>>

\* probe (a skill directory with the text of its SKILL.md), pc (the position
\* of a call that runs step by step), cache (the list the presenter holds)
\* and cli (the command line) belong to the specifications further down; a
\* specification that has no use for a variable keeps it at Unused.
Unused == "unused"

\* A call: the operation, its argument, what it returned or raised (for a
\* scan, the list it returned), and the trees as they were when it started.
Call(op, x, r, res, s, t) ==
    [op |-> op, name |-> x, ret |-> r, result |-> res, srcBefore |-> s, tgtBefore |-> t]

\* What a link found in the target tree may point to.
LinkDests ==
    {SourcePath(n) : n \in Names}
        \cup {SourcePath(n) \o <<"sub">> : n \in Names}
        \cup {<<"ext", "dir">>, <<"ext", "file">>, <<"ext", "missing">>}

SourceEntries(n) ==
    {Absent, File(SourcePath(n))} \cup {Dir(m, SourcePath(n)) : m \in ManifestKinds}

TargetEntries(n) ==
    {Absent, File(TargetPath(n))}
        \cup {Dir(m, TargetPath(n)) : m \in ManifestKinds}
        \cup {Link(d) : d \in LinkDests}

\* __init__ has run: source_dir and target_dir exist, as two different
\* directories with neither inside the other.  Their content is whatever the
\* user's disk holds; the links found there are in the target tree (the
\* source tree gets one only when manage_skill moves it there).
Init ==
    /\ src \in {f \in [Names -> UNION {SourceEntries(n) : n \in Names}] :
                    \A n \in Names : f[n] \in SourceEntries(n)}
    /\ tgt \in {f \in [Names -> UNION {TargetEntries(n) : n \in Names}] :
                    \A n \in Names : f[n] \in TargetEntries(n)}
    /\ last = Call("none", "-", "-", << >>, src, tgt)
    /\ prev = last
    /\ calls = 0
    /\ probe = Unused
    /\ pc = Unused
    /\ cache = Unused
    /\ cli = Unused

Apply(op, x, out) ==
    /\ calls < MaxCalls
    /\ calls' = calls + 1
    /\ src' = out.src
    /\ tgt' = out.tgt
    /\ last' = Call(op, x, out.ret, << >>, src, tgt)
    /\ prev' = last
    /\ UNCHANGED <<probe, pc, cache, cli>>

Activate(x) == Apply("activate", x, ActivateSkill(src, tgt, x))

Deactivate(x) == Apply("deactivate", x, DeactivateSkill(src, tgt, x))

Manage(x) == Apply("manage", x, ManageSkill(src, tgt, x))

\* get_skill_status called on the two paths of x; it returns a status and
\* touches nothing.
GetStatus(x) ==
    Apply("status", x, Outcome(GetSkillStatus(src, tgt, SourcePath(x), TargetPath(x)), src, tgt))

\* A scan that tidies up: it unlinks the dangling links it meets.
ScanPrunesBrokenLinks ==
    /\ calls < MaxCalls
    /\ calls' = calls + 1
    /\ last' = Call("scan", "-", "list", ScanSkills(src, tgt), src, tgt)
    /\ prev' = last
    /\ src' = src
    /\ tgt' = [n \in Names |->
                 IF IsSymlink(src, tgt, TargetPath(n)) /\ ~Exists(src, tgt, TargetPath(n))
                 THEN Absent ELSE tgt[n]]
    /\ UNCHANGED <<probe, pc, cache, cli>>

\* scan_skills() reads both trees and returns the list.
Scan ==
    /\ calls < MaxCalls
    /\ calls' = calls + 1
    /\ last' = Call("scan", "-", "list", ScanSkills(src, tgt), src, tgt)
    /\ prev' = last
    /\ UNCHANGED <<src, tgt, probe, pc, cache, cli>>

Next ==
    \/ \E x \in Names : Activate(x)
    \/ \E x \in Names : Deactivate(x)
    \/ \E x \in Names : Manage(x)
    \/ \E x \in Names : GetStatus(x)
    \/ Scan

Spec == Init /\ [][Next]_vars

TypeOK ==
    /\ DOMAIN src = Names
    /\ DOMAIN tgt = Names
    /\ last.op \in {"none", "activate", "deactivate", "manage", "status", "scan"}
    /\ calls \in 0..MaxCalls

\* ------------------------------------------------------------------------
\* Vocabulary of the properties
\* ------------------------------------------------------------------------
Ops == {"activate", "deactivate", "manage"}

\* What scan_skills reports for n in the trees a call started from, and in
\* the trees as they are now.
StatusBefore(c, n) == ReportedStatus(ScanSkills(c.srcBefore, c.tgtBefore), n)

StatusNow(n) == ReportedStatus(ScanSkills(src, tgt), n)

\* The entries of the current scan that carry name n.
SkillsNow(n) == {k \in {ScanSkills(src, tgt)[i] : i \in DOMAIN ScanSkills(src, tgt)} : k.name = n}

\* The last two calls were op1(x) then op2(x), nothing in between.
InARow(op1, op2) ==
    /\ prev.op = op1
    /\ last.op = op2
    /\ prev.name = last.name

\* Every entry of the target tree other than x's is as the last call found it.
OtherTargetsKept(x) == \A y \in Names \ {x} : tgt[y] = last.tgtBefore[y]

\* ------------------------------------------------------------------------
\* C1
\* ------------------------------------------------------------------------
\* C1: for every skill x that scan_skills reports as INACTIVE,
\* activate_skill(x) returns True, and the next scan reports x as ACTIVE with
\* target_dir/x a symbolic link that resolves to source_dir/x.
C1_ActivateInactive ==
    (last.op = "activate" /\ StatusBefore(last, last.name) = INACTIVE)
        => /\ last.ret = "True"
           /\ StatusNow(last.name) = ACTIVE
           /\ tgt[last.name] = Link(SourcePath(last.name))
           /\ Resolve(src, tgt, TargetPath(last.name)) = Resolve(src, tgt, SourcePath(last.name))

\* ------------------------------------------------------------------------
\* C2
\* ------------------------------------------------------------------------
\* C2: for every skill x whose source directory exists, activate_skill(x)
\* called twice in a row returns True both times, x is ACTIVE on a scan after
\* the first call and on a scan after the second, and after the second call
\* target_dir/x is (again) the symbolic link to source_dir/x.
C2_ActivateTwice ==
    (/\ InARow("activate", "activate")
     /\ last.name \in GetDirectories(prev.srcBefore, prev.tgtBefore, "src"))
        => /\ prev.ret = "True"
           /\ last.ret = "True"
           /\ StatusBefore(last, last.name) = ACTIVE
           /\ StatusNow(last.name) = ACTIVE
           /\ tgt[last.name] = Link(SourcePath(last.name))

\* ------------------------------------------------------------------------
\* C3
\* ------------------------------------------------------------------------
\* C3: for every skill x that is INACTIVE, activate_skill(x) followed by
\* deactivate_skill(x) both return True, leave no entry at target_dir/x, leave
\* the source tree as it was, and a re-scan reports x as INACTIVE again.
C3_RoundTrip ==
    (/\ InARow("activate", "deactivate")
     /\ StatusBefore(prev, last.name) = INACTIVE)
        => /\ prev.ret = "True"
           /\ last.ret = "True"
           /\ tgt[last.name] = Absent
           /\ src = prev.srcBefore
           /\ StatusNow(last.name) = INACTIVE

\* ------------------------------------------------------------------------
\* C4
\* ------------------------------------------------------------------------
\* C4: activate_skill(x) and deactivate_skill(x), whether they return or
\* raise, leave the source tree exactly as it was; in the target tree only the
\* entry of x may have been removed or replaced.
C4_SourceTreeKept ==
    last.op \in {"activate", "deactivate"}
        => /\ src = last.srcBefore
           /\ OtherTargetsKept(last.name)

\* An activate_skill that removed a real directory from the target tree and
\* put the link in its place.
C4_Witness ==
    /\ last.op = "activate"
    /\ last.ret = "True"
    /\ last.tgtBefore[last.name].kind = "dir"
    /\ tgt[last.name] = Link(SourcePath(last.name))
    /\ src[last.name].kind = "dir"

\* ------------------------------------------------------------------------
\* C5
\* ------------------------------------------------------------------------
\* C5: whenever target_dir/x does not exist, or exists but is not a symbolic
\* link (a real directory or a regular file), deactivate_skill(x) returns
\* False, raises nothing and leaves both trees unchanged.
C5_DeactivateRefuses ==
    (/\ last.op = "deactivate"
     /\ \/ ~Exists(last.srcBefore, last.tgtBefore, TargetPath(last.name))
        \/ ~IsSymlink(last.srcBefore, last.tgtBefore, TargetPath(last.name)))
        => /\ last.ret = "False"
           /\ src = last.srcBefore
           /\ tgt = last.tgtBefore

\* A deactivate_skill that found a real directory at target_dir/x.
C5_Witness ==
    /\ last.op = "deactivate"
    /\ last.tgtBefore[last.name].kind = "dir"
    /\ last.ret = "False"
    /\ tgt[last.name].kind = "dir"

\* ------------------------------------------------------------------------
\* C6
\* ------------------------------------------------------------------------
\* What the link at target_dir/x led to when the last call started, as it is
\* now: the entry found by following the link's destination.
DestinationBefore(c) ==
    RealEntry(c.srcBefore, c.tgtBefore, c.tgtBefore[c.name].dest)

DestinationNow(c) == RealEntry(src, tgt, c.tgtBefore[c.name].dest)

\* C6: whenever the entry at target_dir/x is a symbolic link,
\* whatever it points to, deactivate_skill(x) removes the link, returns True
\* and leaves the link's destination untouched; in particular an ACTIVE x is
\* deactivated with True and the next scan reports it INACTIVE.
C6_DeactivateAnyLink ==
    (last.op = "deactivate" /\ last.tgtBefore[last.name].kind = "link")
        => /\ last.ret = "True"
           /\ tgt[last.name] = Absent
           /\ DestinationNow(last) = DestinationBefore(last)
           /\ StatusBefore(last, last.name) = ACTIVE => StatusNow(last.name) = INACTIVE

\* ------------------------------------------------------------------------
\* C7
\* ------------------------------------------------------------------------
\* C7: for every x that is a directory at target_dir/x with no entry at
\* source_dir/x, manage_skill(x) moves that directory, contents included, to
\* source_dir/x, creates the symbolic link target_dir/x -> source_dir/x and
\* returns True; when the directory is a skill, the next scan reports x as
\* ACTIVE with source_path = source_dir/x.
C7_AdoptTargetOnly ==
    (/\ last.op = "manage"
     /\ last.tgtBefore[last.name].kind = "dir"
     /\ last.srcBefore[last.name] = Absent)
        => /\ last.ret = "True"
           /\ src[last.name] = last.tgtBefore[last.name]
           /\ \A y \in Names \ {last.name} : src[y] = last.srcBefore[y]
           /\ tgt[last.name] = Link(SourcePath(last.name))
           /\ last.name \in GetDirectories(last.srcBefore, last.tgtBefore, "tgt")
                => /\ StatusNow(last.name) = ACTIVE
                   /\ \A k \in SkillsNow(last.name) : k.source_path = SourcePath(last.name)

\* A manage_skill of a skill that the scan reported UNMANAGED with an empty
\* source_path.
C7_Witness ==
    /\ last.op = "manage"
    /\ last.srcBefore[last.name] = Absent
    /\ last.tgtBefore[last.name].kind = "dir"
    /\ StatusBefore(last, last.name) = UNMANAGED
    /\ src[last.name].origin = TargetPath(last.name)
    /\ StatusNow(last.name) = ACTIVE

\* ------------------------------------------------------------------------
\* C8
\* ------------------------------------------------------------------------
\* C8: for every skill x that scan_skills reports as UNMANAGED and for which
\* source_dir/x exists, manage_skill(x) discards whatever occupies
\* target_dir/x (a real directory, a regular file or a symbolic link),
\* creates the symbolic link target_dir/x -> source_dir/x, returns True, and
\* the next scan reports x as ACTIVE.  Stated for the skills of the source
\* tree, those the scan lists with source_path = source_dir/x.
C8_AdoptSourceExists ==
    (/\ last.op = "manage"
     /\ StatusBefore(last, last.name) = UNMANAGED
     /\ last.name \in GetDirectories(last.srcBefore, last.tgtBefore, "src"))
        => /\ last.ret = "True"
           /\ tgt[last.name] = Link(SourcePath(last.name))
           /\ StatusNow(last.name) = ACTIVE

\* ------------------------------------------------------------------------
\* C9
\* ------------------------------------------------------------------------
\* C9: whenever source_dir/x exists and an entry of any kind is at
\* target_dir/x (a real directory, a regular file, a symbolic link, valid or
\* not), activate_skill(x) removes that entry, creates the symbolic link
\* target_dir/x -> source_dir/x and returns True; it never returns leaving the
\* old entry in place.
C9_ActivateOverwrites ==
    (/\ last.op = "activate"
     /\ Exists(last.srcBefore, last.tgtBefore, SourcePath(last.name))
     /\ last.tgtBefore[last.name] # Absent)
        => /\ last.ret = "True"
           /\ tgt[last.name] = Link(SourcePath(last.name))

\* ------------------------------------------------------------------------
\* C10
\* ------------------------------------------------------------------------
\* C10: every skill that scan_skills reports as ACTIVE has, in the trees that
\* were scanned, a symbolic link at target_dir/name whose resolved path is
\* the resolved source_dir/name or lies below it.
C10_ActiveIsLinkIntoSource ==
    last.op = "scan"
        => \A i \in DOMAIN last.result :
              last.result[i].status = ACTIVE
                => LET n == last.result[i].name
                   IN  /\ last.tgtBefore[n].kind = "link"
                       /\ IsPrefix(Resolve(last.srcBefore, last.tgtBefore, SourcePath(n)),
                                   Resolve(last.srcBefore, last.tgtBefore, TargetPath(n)))

\* A scan that reported a skill ACTIVE through a link to a directory below
\* source_dir/name.
C10_Witness ==
    /\ last.op = "scan"
    /\ \E i \in DOMAIN last.result :
          /\ last.result[i].status = ACTIVE
          /\ tgt[last.result[i].name] = Link(SourcePath(last.result[i].name) \o <<"sub">>)

\* ------------------------------------------------------------------------
\* C11
\* ------------------------------------------------------------------------
\* C11: every skill that scan_skills reports as INACTIVE has, in the trees
\* that were scanned, an existing source_dir/name and no entry of any kind
\* at target_dir/name, a broken symbolic link included.
C11_InactiveHasNoTargetEntry ==
    last.op = "scan"
        => \A i \in DOMAIN last.result :
              last.result[i].status = INACTIVE
                => /\ Exists(last.srcBefore, last.tgtBefore, SourcePath(last.result[i].name))
                   /\ last.tgtBefore[last.result[i].name] = Absent

\* ------------------------------------------------------------------------
\* C12
\* ------------------------------------------------------------------------
\* (a) of C12: an entry is at target_dir/n and it is not a symbolic link that
\* resolves to source_dir/n or below it.
TargetFailsLinkTest(s, t, n) ==
    /\ t[n] # Absent
    /\ ~(/\ t[n].kind = "link"
         /\ IsPrefix(Resolve(s, t, SourcePath(n)), Resolve(s, t, TargetPath(n))))

\* C12: every skill that scan_skills reports as UNMANAGED has (a) an
\* entry at target_dir/name that is not a symbolic link resolving to or under
\* source_dir/name, or (b) nothing at all at source_dir/name.
C12_UnmanagedNothingAtSource ==
    last.op = "scan"
        => \A i \in DOMAIN last.result :
              last.result[i].status = UNMANAGED
                => \/ TargetFailsLinkTest(last.srcBefore, last.tgtBefore, last.result[i].name)
                   \/ last.srcBefore[last.result[i].name] = Absent

\* ------------------------------------------------------------------------
\* C13
\* ------------------------------------------------------------------------
\* The names of a scan result.
ResultNames(scan) == {scan[i].name : i \in DOMAIN scan}

\* C13: scan_skills never returns two entries with the same name; a name that
\* qualifies in both trees appears once, with the status the classifier gives
\* the pair of paths; the names returned are exactly the qualifying names of
\* the source tree together with those of the target tree.
C13_NamesUnique ==
    last.op = "scan"
        => /\ \A i, j \in DOMAIN last.result :
                 last.result[i].name = last.result[j].name => i = j
           /\ ResultNames(last.result)
                 = GetDirectories(last.srcBefore, last.tgtBefore, "src")
                      \cup GetDirectories(last.srcBefore, last.tgtBefore, "tgt")
           /\ \A i \in DOMAIN last.result :
                 last.result[i].name \in GetDirectories(last.srcBefore, last.tgtBefore, "src")
                                            \cap GetDirectories(last.srcBefore, last.tgtBefore, "tgt")
                   => /\ last.result[i].source_path = SourcePath(last.result[i].name)
                      /\ last.result[i].status
                            = GetSkillStatus(last.srcBefore, last.tgtBefore,
                                             SourcePath(last.result[i].name),
                                             TargetPath(last.result[i].name))

\* A scan of trees in which one name is a skill on both sides and another on
\* the target side only.
C13_Witness ==
    /\ last.op = "scan"
    /\ Len(last.result) = Cardinality(Names)
    /\ \E n \in Names : /\ src[n].kind = "dir"
                        /\ tgt[n].kind = "dir"
                        /\ n \in ResultNames(last.result)
    /\ \E i \in DOMAIN last.result : last.result[i].source_path = EmptyPath

\* ------------------------------------------------------------------------
\* C14
\* ------------------------------------------------------------------------
\* C14: when source_dir/x exists and the entry at target_dir/x is a dangling
\* symbolic link, get_skill_status does not raise and returns UNMANAGED, not
\* INACTIVE and not ACTIVE.
C14_BrokenLinkUnmanaged ==
    (/\ last.op = "status"
     /\ Exists(last.srcBefore, last.tgtBefore, SourcePath(last.name))
     /\ last.tgtBefore[last.name].kind = "link"
     /\ ~Exists(last.srcBefore, last.tgtBefore, TargetPath(last.name)))
        => last.ret = UNMANAGED

\* ------------------------------------------------------------------------
\* C15
\* ------------------------------------------------------------------------
\* The ordered decision procedure, read off the entries at the two paths.
DecisionProcedure(s, t, n) ==
    IF s[n] = Absent THEN UNMANAGED
    ELSE IF t[n] = Absent THEN INACTIVE
    ELSE IF /\ t[n].kind = "link"
            /\ IsPrefix(Resolve(s, t, SourcePath(n)), Resolve(s, t, TargetPath(n)))
         THEN ACTIVE
    ELSE UNMANAGED

\* C15: for every combination of source and target entries get_skill_status
\* returns exactly one status, the one of the ordered procedure: source path
\* missing, UNMANAGED; else target path missing, INACTIVE; else target a
\* symbolic link resolving to the resolved source path or below it, ACTIVE;
\* every other case (real directory, regular file, link pointing elsewhere),
\* UNMANAGED.
C15_DecisionProcedure ==
    last.op = "status"
        => /\ last.ret \in SkillStatus
           /\ last.ret = DecisionProcedure(last.srcBefore, last.tgtBefore, last.name)

\* ------------------------------------------------------------------------
\* C16
\* ------------------------------------------------------------------------
\* C16: activate_skill(x) raises FileNotFoundError whenever source_dir/x does
\* not exist, and then changes nothing: an entry at target_dir/x is neither
\* removed nor replaced.
C16_ActivateNotFound ==
    (last.op = "activate" /\ ~Exists(last.srcBefore, last.tgtBefore, SourcePath(last.name)))
        => /\ last.ret = "FileNotFoundError"
           /\ src = last.srcBefore
           /\ tgt = last.tgtBefore

\* An activate_skill of a name with nothing in the source tree and a real
\* directory in the target tree.
C16_Witness ==
    /\ last.op = "activate"
    /\ last.srcBefore[last.name] = Absent
    /\ last.tgtBefore[last.name].kind = "dir"
    /\ last.ret = "FileNotFoundError"
    /\ tgt[last.name].kind = "dir"

\* ------------------------------------------------------------------------
\* C17
\* ------------------------------------------------------------------------
\* C17: manage_skill(x) raises the not-found error exactly when there is no
\* entry at all at target_dir/x, and then changes neither tree; whenever any
\* entry is at target_dir/x it does not fail with not-found.
C17_ManageNotFound ==
    last.op = "manage"
        => /\ last.ret = "FileNotFoundError" <=> last.tgtBefore[last.name] = Absent
           /\ last.ret = "FileNotFoundError" => (src = last.srcBefore /\ tgt = last.tgtBefore)

\* ------------------------------------------------------------------------
\* C18
\* ------------------------------------------------------------------------
\* The tree an operation requires the name to be in.
RequiredPath(c) == IF c.op = "activate" THEN SourcePath(c.name) ELSE TargetPath(c.name)

\* C18: for activate_skill, deactivate_skill and manage_skill alike, a name
\* absent from the tree the operation requires (source for activate, target
\* for deactivate and manage) surfaces as a raised not-found condition, and
\* nothing else does: False is returned only for a structural refusal of a
\* name that is present, True only for a success.
C18_OutcomesDistinct ==
    last.op \in Ops
        => /\ ~Exists(last.srcBefore, last.tgtBefore, RequiredPath(last))
                => last.ret = "FileNotFoundError"
           /\ last.ret \in {"True", "False"}
                => Exists(last.srcBefore, last.tgtBefore, RequiredPath(last))

\* ------------------------------------------------------------------------
\* C19
\* ------------------------------------------------------------------------
\* C19: the source tree is changed by manage_skill in the target-only case
\* and by nothing else: scan_skills, activate_skill, deactivate_skill, and
\* manage_skill when source_dir/x exists, leave it as it was, whatever the
\* target tree holds; a manage_skill that adopts a target-only entry does
\* change it.
C19_OnlyAdoptTouchesSource ==
    /\ (\/ last.op \in {"scan", "status", "activate", "deactivate"}
        \/ /\ last.op = "manage"
           /\ Exists(last.srcBefore, last.tgtBefore, SourcePath(last.name)))
          => src = last.srcBefore
    /\ (/\ last.op = "manage"
        /\ last.ret = "True"
        /\ ~Exists(last.srcBefore, last.tgtBefore, SourcePath(last.name)))
          => /\ src # last.srcBefore
             /\ src[last.name] = last.tgtBefore[last.name]

\* A manage_skill that found a skill on both sides, threw the target's
\* directory away and left the source alone.
C19_Witness ==
    /\ last.op = "manage"
    /\ last.ret = "True"
    /\ last.srcBefore[last.name].kind = "dir"
    /\ last.tgtBefore[last.name].kind = "dir"
    /\ src[last.name].origin = SourcePath(last.name)

\* ------------------------------------------------------------------------
\* C20
\* ------------------------------------------------------------------------
\* C20: scan_skills leaves both trees unchanged, and two scans with no call
\* in between report the same names with the same statuses.
C20_ScanReadOnly ==
    last.op = "scan"
        => /\ src = last.srcBefore
           /\ tgt = last.tgtBefore
           /\ prev.op = "scan"
                => {<<k.name, k.status>> : k \in {last.result[i] : i \in DOMAIN last.result}}
                     = {<<k.name, k.status>> : k \in {prev.result[i] : i \in DOMAIN prev.result}}

\* Two scans in a row of trees that hold a dangling link and a listed skill.
C20_Witness ==
    /\ last.op = "scan"
    /\ prev.op = "scan"
    /\ last.result # << >>
    /\ \E n \in Names : tgt[n].kind = "link" /\ ~Exists(src, tgt, TargetPath(n))

\* ------------------------------------------------------------------------
\* C22
\* ------------------------------------------------------------------------
\* C22: scan_skills reports a name with status UNMANAGED and an empty
\* source_path exactly when the name qualifies as a skill in the target tree
\* and nothing is at source_dir/name; a name with any entry at
\* source_dir/name is never reported with an empty source_path.
C22_EmptySourcePath ==
    last.op = "scan"
        => \A n \in Names :
              /\ (\E i \in DOMAIN last.result :
                      /\ last.result[i].name = n
                      /\ last.result[i].status = UNMANAGED
                      /\ last.result[i].source_path = EmptyPath)
                   <=> (/\ n \in GetDirectories(last.srcBefore, last.tgtBefore, "tgt")
                        /\ last.srcBefore[n] = Absent)
              /\ last.srcBefore[n] # Absent
                   => \A i \in DOMAIN last.result :
                         last.result[i].name = n => last.result[i].source_path # EmptyPath

\* ------------------------------------------------------------------------
\* C23
\* ------------------------------------------------------------------------
\* C23: the list scan_skills returns is sorted by name compared without
\* regard to case: lower(a.name) <= lower(b.name) for every two adjacent
\* entries a, b, whichever tree each of them was found in.
C23_SortedIgnoringCase ==
    last.op = "scan"
        => \A i \in DOMAIN last.result :
              i + 1 \in DOMAIN last.result
                => Ord(Lower(last.result[i].name)) <= Ord(Lower(last.result[i + 1].name))

\* A scan that lists a lower-case name found in one tree before an upper-case
\* name found in the other.
C23_Witness ==
    /\ last.op = "scan"
    /\ Len(last.result) = 2
    /\ Ord(last.result[2].name) < Ord(last.result[1].name)
    /\ (last.result[1].source_path = EmptyPath) # (last.result[2].source_path = EmptyPath)

\* ========================================================================
\* SKILL.md: the directory scanner and the description parser
\* ========================================================================
\* Longest SKILL.md, in lines.
MaxLines == 5

\* A line is a sequence of tokens: a word, a key with its colon, the
\* delimiter, or " " for white space.  Every line ends with a newline.
Delim == <<"---">>

Blank == << >>

NameLine == <<"name:", " ", "x">>

NameEmpty == <<"name:">>

DescLine == <<"description:", " ", "Does A">>

DescTight == <<"description:", "Does A">>

BodyLine == <<"Body">>

ManifestLines == {Delim, Blank, NameLine, NameEmpty, DescLine, DescTight, BodyLine}

Texts == UNION {[1..k -> ManifestLines] : k \in 0..MaxLines}

GoodText == <<Delim, <<"name:", " ", "h">>, <<"description:", " ", "Healthy">>, Delim>>

\* What read_text() and stat() meet at d / "SKILL.md":
\*   "text"        a file that reads as the lines of text
\*   "missing"     no such file
\*   "unreadable"  read_text() raises OSError or UnicodeDecodeError
\*   "locked"      d may not be searched: stat() raises PermissionError,
\*                 which Path.exists() does not swallow
ManifestStates == {"text", "missing", "unreadable", "locked"}

Entry(n, k, st, txt) == [name |-> n, kind |-> k, state |-> st, text |-> txt]

\* The skill that is in order: source_dir/h with a complete SKILL.md.
Healthy == Entry("h", "dir", "text", GoodText)

\* d.name.startswith(".")
StartsWithDot(n) == n = ".p"

\* \S somewhere in line l at or after token k.
NonSpace(l, k) == \E i \in k..Len(l) : l[i] # " "

\* re.search(r"^---\n(.*?)\n---", content, re.DOTALL): the file starts with a
\* --- line and the match ends at the first later line that starts with
\* ---, at least one line further down; 0 when there is no match.
ClosingLine(text) ==
    IF /\ Len(text) >= 3
       /\ text[1] = Delim
       /\ \E j \in 3..Len(text) : text[j] # Blank /\ text[j][1] = "---"
    THEN CHOOSE j \in 3..Len(text) :
            /\ text[j] # Blank /\ text[j][1] = "---"
            /\ \A k \in 3..(j - 1) : text[k] = Blank \/ text[k][1] # "---"
    ELSE 0

\* match.group(1): the lines between the two delimiters.
YamlContent(text) == SubSeq(text, 2, ClosingLine(text) - 1)

\* re.search(r"^<key>\s*\S+", yaml_content, re.MULTILINE): a line starts with
\* the key and a non-blank follows, on that line or, since \s* runs over
\* newlines, on a later line of yaml_content.
HasField(yaml, key) ==
    \E i \in DOMAIN yaml :
        /\ yaml[i] # Blank
        /\ yaml[i][1] = key
        /\ \/ NonSpace(yaml[i], 2)
           \/ \E j \in (i + 1)..Len(yaml) : NonSpace(yaml[j], 1)


\* The probe: one more directory entry, in either tree, in any condition.
\* Entries(pr, root) are the entries path.iterdir() yields for a root.
Roots == {"src", "tgt", "nowhere"}

Entries(pr, root) ==
    (IF root = "src" THEN {Healthy} ELSE {})
        \cup (IF pr.tree = root THEN {pr.entry} ELSE {})

\* What a call yields: the exception it raised ("none" if it returned), and
\* the names, the description or the list it returned.
Result(r, ns, v, ks) == [raised |-> r, names |-> ns, value |-> v, skills |-> ks]

\* Lines 71-89 of _get_directories for one directory d.
ManifestQualifies(d) ==
    /\ d.state = "text"
    /\ ClosingLine(d.text) # 0
    /\ HasField(YamlContent(d.text), "name:")
    /\ HasField(YamlContent(d.text), "description:")

\* _get_directories(path) with the SKILL.md files in full.
GetDirectoriesIn(pr, root) ==
    LET dirs == {d \in Entries(pr, root) : d.kind = "dir" /\ ~StartsWithDot(d.name)}
    IN  IF root = "nowhere" THEN Result("none", {}, << >>, << >>)
        ELSE IF \E d \in dirs : d.state = "locked"
             THEN Result("PermissionError", {}, << >>, << >>)
        ELSE Result("none", {d.name : d \in {e \in dirs : ManifestQualifies(e)}}, << >>, << >>)

\* The fixed strings parse_skill_description returns.
NoDescription == <<"No description available">>

CouldNotRead == <<"Could not read description">>

NotFound == <<"Description not found">>

\* str.strip(): white space and newlines off both ends.
RECURSIVE Strip(_)
Strip(s) ==
    IF s = << >> THEN s
    ELSE IF Head(s) \in {" ", "\n"} THEN Strip(Tail(s))
    ELSE IF s[Len(s)] \in {" ", "\n"} THEN Strip(SubSeq(s, 1, Len(s) - 1))
    ELSE s

\* Lines as one string, a newline between each two.
RECURSIVE Join(_)
Join(lines) ==
    IF lines = << >> THEN << >>
    ELSE IF Len(lines) = 1 THEN lines[1]
    ELSE lines[1] \o <<"\n">> \o Join(Tail(lines))

\* A line that r"^description: (.+)$" matches: the key, one space, and at
\* least one more character.
IsDescriptionLine(l) == Len(l) >= 3 /\ l[1] = "description:" /\ l[2] = " "

\* r"^---\n.*?\n---\n(.*?)\n\n" with re.DOTALL: the file starts with a ---
\* line, a later line is --- alone, and group 1 runs from the line below it
\* to the newline before the first empty line that is at least two lines
\* below; ParagraphEnd is that empty line, 0 when the pattern does not match.
ParagraphStart(text) ==
    IF /\ Len(text) >= 3
       /\ text[1] = Delim
       /\ \E j \in 3..Len(text) : text[j] = Delim
    THEN 1 + CHOOSE j \in 3..Len(text) :
                /\ text[j] = Delim
                /\ \A k \in 3..(j - 1) : text[k] # Delim
    ELSE 0

ParagraphEnd(text) ==
    IF /\ ParagraphStart(text) # 0
       /\ \E m \in (ParagraphStart(text) + 1)..Len(text) : text[m] = Blank
    THEN CHOOSE m \in (ParagraphStart(text) + 1)..Len(text) :
            /\ text[m] = Blank
            /\ \A k \in (ParagraphStart(text) + 1)..(m - 1) : text[k] # Blank
    ELSE 0

\* parse_skill_description(skill_path)
ParseSkillDescription(d) ==
    IF d.state = "locked" THEN Result("PermissionError", {}, << >>, << >>)
    ELSE IF d.state = "missing" THEN Result("none", {}, NoDescription, << >>)
    ELSE IF d.state = "unreadable" THEN Result("none", {}, CouldNotRead, << >>)
    ELSE IF \E i \in DOMAIN d.text : IsDescriptionLine(d.text[i])
         THEN LET i == CHOOSE i \in DOMAIN d.text :
                          /\ IsDescriptionLine(d.text[i])
                          /\ \A k \in 1..(i - 1) : ~IsDescriptionLine(d.text[k])
              IN  Result("none", {}, Strip(SubSeq(d.text[i], 3, Len(d.text[i]))), << >>)
    ELSE IF ParagraphEnd(d.text) # 0
         THEN LET desc == Strip(Join(SubSeq(d.text, ParagraphStart(d.text),
                                            ParagraphEnd(d.text) - 1)))
              IN  Result("none", {}, IF desc # << >> THEN desc ELSE NoDescription, << >>)
    ELSE Result("none", {}, NotFound, << >>)


\* models.py: a Skill with its description.
Described(k, desc) ==
    [name |-> k.name, status |-> k.status, description |-> desc,
     source_path |-> k.source_path, target_path |-> k.target_path]

EntryAt(pr, root, n) == CHOOSE e \in Entries(pr, root) : e.name = n

\* A root as get_skill_status and the operations see it: entries with a
\* SKILL.md that passes the scanner's tests or does not.
Tree(pr, root) ==
    [n \in {e.name : e \in Entries(pr, root)} |->
        IF EntryAt(pr, root, n).kind = "dir"
        THEN Dir(IF ManifestQualifies(EntryAt(pr, root, n)) THEN "valid" ELSE "invalid",
                 <<root, n>>)
        ELSE File(<<root, n>>)]

\* scan_skills() with the descriptions: an exception of _get_directories
\* passes through it.
ScanSkillsIn(pr) ==
    LET source == GetDirectoriesIn(pr, "src")
        target == GetDirectoriesIn(pr, "tgt")
        s == Tree(pr, "src")
        t == Tree(pr, "tgt")
        fromSource ==
            {Described(Skill(n, GetSkillStatus(s, t, SourcePath(n), TargetPath(n)),
                             SourcePath(n), TargetPath(n)),
                       ParseSkillDescription(EntryAt(pr, "src", n)).value) :
                 n \in source.names}
        fromTarget ==
            {Described(Skill(n, UNMANAGED, EmptyPath, TargetPath(n)),
                       ParseSkillDescription(EntryAt(pr, "tgt", n)).value) :
                 n \in target.names \ source.names}
    IN  IF source.raised # "none" THEN source
        ELSE IF target.raised # "none" THEN target
        ELSE Result("none", {}, << >>, SortedByLowerName(fromSource \cup fromTarget))

\* The conditions the probe is found in: a directory p with any SKILL.md of
\* up to MaxLines lines, p or .p with a SKILL.md that is missing, unreadable
\* or out of reach, .p with a complete SKILL.md, and a plain file.
ProbeEntries ==
    {Entry("p", "dir", "text", txt) : txt \in Texts}
        \cup {Entry(n, "dir", st, << >>) : n \in {"p", ".p"}, st \in ManifestStates \ {"text"}}
        \cup {Entry(".p", "dir", "text", GoodText)}
        \cup {Entry(n, "file", "missing", << >>) : n \in {"p", ".p"}}

Applied(op, root, res) ==
    [op |-> op, root |-> root, raised |-> res.raised, names |-> res.names,
     value |-> res.value, skills |-> res.skills]

InitManifest ==
    /\ probe \in {[tree |-> r, entry |-> e] : r \in {"src", "tgt"}, e \in ProbeEntries}
    /\ last = Applied("none", "-", Result("none", {}, << >>, << >>))
    /\ src = Unused
    /\ tgt = Unused
    /\ prev = Unused
    /\ calls = Unused
    /\ pc = Unused
    /\ cache = Unused
    /\ cli = Unused

ListDirectories(root) ==
    /\ last' = Applied("dirs", root, GetDirectoriesIn(probe, root))
    /\ UNCHANGED <<src, tgt, prev, calls, probe, pc, cache, cli>>

ParseDescription ==
    /\ last' = Applied("parse", probe.tree, ParseSkillDescription(probe.entry))
    /\ UNCHANGED <<src, tgt, prev, calls, probe, pc, cache, cli>>

ScanWithDescriptions ==
    /\ last' = Applied("scan", "-", ScanSkillsIn(probe))
    /\ UNCHANGED <<src, tgt, prev, calls, probe, pc, cache, cli>>

NextManifest ==
    \/ \E root \in Roots : ListDirectories(root)
    \/ ParseDescription
    \/ ScanWithDescriptions

SpecManifest == InitManifest /\ [][NextManifest]_vars


\* Sanity of the SKILL.md model: the complete manifest qualifies and parses.
ManifestTypeOK ==
    /\ ManifestQualifies(Healthy)
    /\ ParseSkillDescription(Healthy).value = <<"Healthy">>
    /\ last.op \in {"none", "dirs", "parse", "scan"}


\* ------------------------------------------------------------------------
\* C21
\* ------------------------------------------------------------------------
\* The value of a field of the front matter: what follows the key on the
\* first line that starts with it, trimmed.
FieldValue(text, key) ==
    LET yaml == YamlContent(text)
        i == CHOOSE i \in DOMAIN yaml :
                 /\ yaml[i] # Blank /\ yaml[i][1] = key
                 /\ \A k \in 1..(i - 1) : yaml[k] = Blank \/ yaml[k][1] # key
    IN  Strip(Tail(yaml[i]))

\* A field of the front matter with a value that is not white space.
FieldHasValue(yaml, key) ==
    \E i \in DOMAIN yaml : yaml[i] # Blank /\ yaml[i][1] = key /\ NonSpace(yaml[i], 2)

\* C21: for every qualifying skill of the source tree (listed by the
\* scanner, both fields of its front matter carrying a value) with no entry
\* at target_dir/name, a scan that returns lists exactly one Skill of that
\* name, with status INACTIVE, the value of the description field of its
\* SKILL.md as description, source_path = source_dir/name and target_path =
\* target_dir/name.
C21_SourceOnlySkill ==
    (last.op = "scan" /\ last.raised = "none")
        => \A d \in Entries(probe, "src") :
              (/\ d.name \in GetDirectoriesIn(probe, "src").names
               /\ FieldHasValue(YamlContent(d.text), "name:")
               /\ FieldHasValue(YamlContent(d.text), "description:")
               /\ d.name \notin DOMAIN Tree(probe, "tgt"))
                => /\ Cardinality({i \in DOMAIN last.skills : last.skills[i].name = d.name}) = 1
                   /\ \A i \in DOMAIN last.skills :
                         last.skills[i].name = d.name
                           => /\ last.skills[i].status = INACTIVE
                              /\ last.skills[i].description = FieldValue(d.text, "description:")
                              /\ last.skills[i].source_path = SourcePath(d.name)
                              /\ last.skills[i].target_path = TargetPath(d.name)

\* ------------------------------------------------------------------------
\* C24
\* ------------------------------------------------------------------------
\* C24: _get_directories, when it returns, lists an entry of the root if and
\* only if the entry is a directory whose name does not start with a dot and
\* whose SKILL.md is readable, begins with a front-matter block between two
\* --- lines, and gives both name: and description: a value that is not
\* white space inside that block; for a root that does not exist it returns
\* nothing.
C24_ScannerInclusion ==
    (last.op = "dirs" /\ last.raised = "none")
        => /\ last.root = "nowhere" => last.names = {}
           /\ \A d \in Entries(probe, last.root) :
                 d.name \in last.names
                   <=> /\ d.kind = "dir"
                       /\ ~StartsWithDot(d.name)
                       /\ d.state = "text"
                       /\ ClosingLine(d.text) # 0
                       /\ FieldHasValue(YamlContent(d.text), "name:")
                       /\ FieldHasValue(YamlContent(d.text), "description:")

\* ------------------------------------------------------------------------
\* C25
\* ------------------------------------------------------------------------
RECURSIVE DropBlank(_)
DropBlank(ls) == IF ls # << >> /\ Head(ls) = Blank THEN DropBlank(Tail(ls)) ELSE ls

RECURSIVE TakeParagraph(_)
TakeParagraph(ls) ==
    IF ls = << >> \/ Head(ls) = Blank THEN << >>
    ELSE <<Head(ls)>> \o TakeParagraph(Tail(ls))

\* The first paragraph of the body below the front matter, trimmed.
FirstParagraph(text) ==
    Strip(Join(TakeParagraph(DropBlank(SubSeq(text, ClosingLine(text) + 1, Len(text))))))

HasDescriptionLine(d) ==
    d.state = "text" /\ \E i \in DOMAIN d.text : IsDescriptionLine(d.text[i])

HasFrontMatter(d) == d.state = "text" /\ ClosingLine(d.text) # 0

\* C25: parse_skill_description, when it returns, gives 'No description
\* available' for a missing SKILL.md, 'Could not read description' for one
\* that cannot be read, else the trimmed value of the first line
\* `description: <value>`, else the trimmed first paragraph below the front
\* matter when there is a front-matter block, else 'Description not found';
\* and it gives 'Description not found' only for a text with no description
\* line and no front-matter block (read here as: no front-matter block
\* with a paragraph below it).
C25_ParserPriority ==
    (last.op = "parse" /\ last.raised = "none")
        => LET d == probe.entry
           IN  /\ d.state = "missing" => last.value = NoDescription
               /\ d.state = "unreadable" => last.value = CouldNotRead
               /\ HasDescriptionLine(d)
                    => \E i \in DOMAIN d.text :
                          /\ IsDescriptionLine(d.text[i])
                          /\ \A k \in 1..(i - 1) : ~IsDescriptionLine(d.text[k])
                          /\ last.value = Strip(SubSeq(d.text[i], 3, Len(d.text[i])))
               /\ (~HasDescriptionLine(d) /\ HasFrontMatter(d) /\ FirstParagraph(d.text) # << >>)
                    => last.value = FirstParagraph(d.text)
               /\ (d.state = "text" /\ ~HasDescriptionLine(d) /\ ~HasFrontMatter(d))
                    => last.value = NotFound
               /\ last.value = NotFound
                    => /\ ~HasDescriptionLine(d)
                       /\ ~HasFrontMatter(d) \/ FirstParagraph(d.text) = << >>

\* ------------------------------------------------------------------------
\* C26
\* ------------------------------------------------------------------------
\* C26: whatever the condition of the SKILL.md of another directory of
\* either tree, scan_skills returns; the healthy skill is listed with its
\* status and description; and the other directory, when its SKILL.md is
\* not in order, is left out or carries one of the fixed descriptions.
C26_ScanNeverFails ==
    last.op = "scan"
        => /\ last.raised = "none"
           /\ \E i \in DOMAIN last.skills :
                 /\ last.skills[i].name = Healthy.name
                 /\ last.skills[i].status
                       = GetSkillStatus(Tree(probe, "src"), Tree(probe, "tgt"),
                                        SourcePath(Healthy.name), TargetPath(Healthy.name))
                 /\ last.skills[i].description = <<"Healthy">>
           /\ \A i \in DOMAIN last.skills :
                 (last.skills[i].name = probe.entry.name /\ ~ManifestQualifies(probe.entry))
                   => last.skills[i].description \in {NoDescription, CouldNotRead, NotFound}


\* ========================================================================
\* activate_skill and manage_skill, one filesystem call at a time
\* ========================================================================
\* What shutil.rmtree finds in a directory of the model and removes one by
\* one, in the order os.scandir yields them, before it removes the directory.
Children == {"SKILL.md", "sub"}

\* pc: where the call recorded in last stands.
\*   at       "idle", then "rmtree", "unlink", "move", "copytree" or
\*            "symlink" (the call that is about to be made or is under
\*            way), then "returned", "raised" or "killed" (the process was
\*            interrupted before or during the call at was)
\*   gone     the children rmtree has removed so far
\*   copied   the children copytree has copied so far
\*   removed  the old target entry has been removed or moved away
\*   fault    rmtree was stopped by an OSError of the filesystem
Position(at, was, gone, copied, removed, fault) ==
    [at |-> at, was |-> was, gone |-> gone, copied |-> copied,
     removed |-> removed, fault |-> fault]

\* The first filesystem call of activate_skill (lines 118-125) and of
\* manage_skill (lines 146-157), or the exception raised before any.
FirstStep(op, s, t, x) ==
    IF op = "activate"
    THEN IF ~Exists(s, t, SourcePath(x)) THEN "FileNotFoundError"
         ELSE IF ~Exists(s, t, TargetPath(x)) THEN "symlink"
         ELSE IF IsDir(s, t, TargetPath(x)) THEN "rmtree"
         ELSE "unlink"
    ELSE IF ~Exists(s, t, TargetPath(x)) THEN "FileNotFoundError"
         ELSE IF Exists(s, t, SourcePath(x))
              THEN IF IsDir(s, t, TargetPath(x)) THEN "rmtree" ELSE "unlink"
         ELSE "move"

InitSteps ==
    /\ src \in {f \in [Names -> UNION {SourceEntries(n) : n \in Names}] :
                    \A n \in Names : f[n] \in SourceEntries(n)}
    /\ tgt \in {f \in [Names -> UNION {TargetEntries(n) : n \in Names}] :
                    \A n \in Names : f[n] \in TargetEntries(n)}
    /\ last = Call("none", "-", "-", << >>, src, tgt)
    /\ pc = Position("idle", "idle", {}, {}, FALSE, FALSE)
    /\ prev = Unused
    /\ calls = Unused
    /\ probe = Unused
    /\ cache = Unused
    /\ cli = Unused

\* The call is entered: its tests up to the first filesystem call.
Begin(op, x) ==
    /\ pc.at = "idle"
    /\ LET first == FirstStep(op, src, tgt, x)
       IN  IF first = "FileNotFoundError"
           THEN /\ last' = Call(op, x, first, << >>, src, tgt)
                /\ pc' = [pc EXCEPT !.at = "raised"]
           ELSE /\ last' = Call(op, x, "running", << >>, src, tgt)
                /\ pc' = [pc EXCEPT !.at = first]
    /\ UNCHANGED <<src, tgt, prev, calls, probe, cache, cli>>

\* shutil.rmtree(target_path) is handed a symbolic link: OSError at once.
RmtreeRefuses ==
    /\ pc.at = "rmtree"
    /\ IsSymlink(src, tgt, TargetPath(last.name))
    /\ last' = [last EXCEPT !.ret = "OSError"]
    /\ pc' = [pc EXCEPT !.at = "raised"]
    /\ UNCHANGED <<src, tgt, prev, calls, probe, cache, cli>>

\* shutil.rmtree removes one more child of the directory.
RmtreeChild(c) ==
    /\ pc.at = "rmtree"
    /\ ~IsSymlink(src, tgt, TargetPath(last.name))
    /\ c \in Children \ pc.gone
    /\ pc' = [pc EXCEPT !.gone = pc.gone \cup {c}]
    /\ tgt' = IF c = "SKILL.md"
              THEN [tgt EXCEPT ![last.name].manifest = "invalid"]
              ELSE tgt
    /\ UNCHANGED <<src, last, prev, calls, probe, cache, cli>>

\* shutil.rmtree meets something it cannot remove and raises OSError; what
\* it has removed stays removed.
RmtreeFails ==
    /\ pc.at = "rmtree"
    /\ ~IsSymlink(src, tgt, TargetPath(last.name))
    /\ last' = [last EXCEPT !.ret = "OSError"]
    /\ pc' = [pc EXCEPT !.at = "raised", !.fault = TRUE]
    /\ UNCHANGED <<src, tgt, prev, calls, probe, cache, cli>>

\* shutil.rmtree removes the emptied directory itself.
RmtreeRmdir ==
    /\ pc.at = "rmtree"
    /\ ~IsSymlink(src, tgt, TargetPath(last.name))
    /\ pc.gone = Children
    /\ tgt' = [tgt EXCEPT ![last.name] = Absent]
    /\ pc' = [pc EXCEPT !.at = "symlink", !.removed = TRUE]
    /\ UNCHANGED <<src, last, prev, calls, probe, cache, cli>>

\* target_path.unlink()
UnlinkStep ==
    /\ pc.at = "unlink"
    /\ tgt' = Unlink(src, tgt, last.name).tgt
    /\ pc' = [pc EXCEPT !.at = "symlink", !.removed = TRUE]
    /\ UNCHANGED <<src, last, prev, calls, probe, cache, cli>>

\* MoveStep that takes the entry away from the target tree and never puts
\* it into the source tree.
MoveStepDropsEntry ==
    /\ pc.at = "move"
    /\ tgt' = [tgt EXCEPT ![last.name] = Absent]
    /\ pc' = [pc EXCEPT !.at = "symlink", !.removed = TRUE]
    /\ UNCHANGED <<src, last, prev, calls, probe, cache, cli>>

\* shutil.move(str(target_path), str(source_path)) where both trees are on
\* one filesystem: os.rename.  (Across filesystems a link or a file is
\* re-made at source_path and then unlinked, which leaves the same trees.)
MoveStep ==
    /\ pc.at = "move"
    /\ src' = Move(src, tgt, last.name).src
    /\ tgt' = Move(src, tgt, last.name).tgt
    /\ pc' = [pc EXCEPT !.at = "symlink", !.removed = TRUE]
    /\ UNCHANGED <<last, prev, calls, probe, cache, cli>>

\* shutil.move of a real directory onto another filesystem: os.rename fails
\* and copytree(target_path, source_path) starts by making the directory at
\* source_path, a new and empty one.
MoveAcrossDevices ==
    /\ pc.at = "move"
    /\ tgt[last.name].kind = "dir"
    /\ src' = [src EXCEPT ![last.name] = Dir("invalid", SourcePath(last.name))]
    /\ pc' = [pc EXCEPT !.at = "copytree"]
    /\ UNCHANGED <<tgt, last, prev, calls, probe, cache, cli>>

\* copytree copies one more child.
CopytreeChild(c) ==
    /\ pc.at = "copytree"
    /\ c \in Children \ pc.copied
    /\ pc' = [pc EXCEPT !.copied = pc.copied \cup {c}]
    /\ src' = IF c = "SKILL.md"
              THEN [src EXCEPT ![last.name].manifest = tgt[last.name].manifest]
              ELSE src
    /\ UNCHANGED <<tgt, last, prev, calls, probe, cache, cli>>

\* copytree could not copy everything (disk full, unreadable file): it
\* raises shutil.Error, an OSError, and what it has copied stays.
CopytreeFails ==
    /\ pc.at = "copytree"
    /\ pc.copied # Children
    /\ last' = [last EXCEPT !.ret = "OSError"]
    /\ pc' = [pc EXCEPT !.at = "raised", !.was = "copytree", !.fault = TRUE]
    /\ UNCHANGED <<src, tgt, prev, calls, probe, cache, cli>>

\* copytree is through: source_path holds the whole directory, and
\* shutil.move goes on to rmtree(target_path).
CopytreeDone ==
    /\ pc.at = "copytree"
    /\ pc.copied = Children
    /\ src' = [src EXCEPT ![last.name] = tgt[last.name]]
    /\ pc' = [pc EXCEPT !.at = "rmtree"]
    /\ UNCHANGED <<tgt, last, prev, calls, probe, cache, cli>>

\* os.symlink(source_path, target_path); return True
SymlinkStep ==
    /\ pc.at = "symlink"
    /\ LET out == Symlink(src, tgt, last.name)
       IN  /\ tgt' = out.tgt
           /\ last' = [last EXCEPT !.ret = out.ret]
           /\ pc' = [pc EXCEPT !.at = IF out.ret = "True" THEN "returned" ELSE "raised"]
    /\ UNCHANGED <<src, prev, calls, probe, cache, cli>>

\* The process is interrupted (killed, power lost) before its next
\* filesystem call.
Kill ==
    /\ pc.at \in {"rmtree", "unlink", "move", "copytree", "symlink"}
    /\ pc' = [pc EXCEPT !.at = "killed", !.was = pc.at]
    /\ last' = [last EXCEPT !.ret = "killed"]
    /\ UNCHANGED <<src, tgt, prev, calls, probe, cache, cli>>

NextSteps ==
    \/ \E op \in {"activate", "manage"}, x \in Names : Begin(op, x)
    \/ RmtreeRefuses
    \/ \E c \in Children : RmtreeChild(c)
    \/ RmtreeFails
    \/ RmtreeRmdir
    \/ UnlinkStep
    \/ MoveStep
    \/ MoveAcrossDevices
    \/ \E c \in Children : CopytreeChild(c)
    \/ CopytreeFails
    \/ CopytreeDone
    \/ SymlinkStep
    \/ Kill

SpecSteps == InitSteps /\ [][NextSteps]_vars

\* Undisturbed, the steps of a call add up to the call: when it returns or
\* raises without a fault of the filesystem, its result and both trees are
\* those of ActivateSkill or ManageSkill on the trees it started from.
StepsAddUp ==
    (pc.at \in {"returned", "raised"} /\ ~pc.fault)
        => LET out == IF last.op = "activate"
                      THEN ActivateSkill(last.srcBefore, last.tgtBefore, last.name)
                      ELSE ManageSkill(last.srcBefore, last.tgtBefore, last.name)
           IN  /\ last.ret = out.ret
               /\ src = out.src
               /\ tgt = out.tgt


\* ------------------------------------------------------------------------
\* C27
\* ------------------------------------------------------------------------
\* C27: when the recursive removal of a real directory at target_dir/x
\* fails part-way during activate_skill(x), x a skill of the source tree,
\* the directory it leaves behind is not one that still qualifies as a
\* skill and that a following scan lists as the target of skill x.
C27_NoPartialTarget ==
    (/\ last.op = "activate"
     /\ last.name \in GetDirectories(last.srcBefore, last.tgtBefore, "src")
     /\ pc.at = "raised"
     /\ pc.fault
     /\ pc.gone # {})
        => ~(/\ tgt[last.name].kind = "dir"
             /\ last.name \in GetDirectories(src, tgt, "tgt")
             /\ \E i \in DOMAIN ScanSkills(src, tgt) :
                   /\ ScanSkills(src, tgt)[i].name = last.name
                   /\ ScanSkills(src, tgt)[i].target_path = TargetPath(last.name))

\* ------------------------------------------------------------------------
\* C28
\* ------------------------------------------------------------------------
\* C28: when activate_skill(x) or manage_skill(x), called on a skill x that
\* scan lists, is interrupted after the old target entry was removed or
\* moved and before the link is made, nothing is at target_dir/x and the
\* next scan reports x as INACTIVE or UNMANAGED; and no interruption leaves
\* x reported ACTIVE without a link at target_dir/x that resolves into
\* source_dir/x.
C28_InterruptedReverts ==
    (/\ last.op \in {"activate", "manage"}
     /\ pc.at = "killed"
     /\ StatusBefore(last, last.name) # "none")
        => /\ (pc.was = "symlink" /\ pc.removed)
                => /\ tgt[last.name] = Absent
                   /\ StatusNow(last.name) \in {INACTIVE, UNMANAGED}
           /\ StatusNow(last.name) = ACTIVE
                => /\ IsSymlink(src, tgt, TargetPath(last.name))
                   /\ IsPrefix(Resolve(src, tgt, SourcePath(last.name)),
                               Resolve(src, tgt, TargetPath(last.name)))


\* ========================================================================
\* cli.py: where the source and the target directory come from
\* ========================================================================
\* A path of the command line is a sequence of components; << >> stands for
\* an argument that was not given (None).
NoArg == << >>

Home == <<"home">>

BaseDir == <<"w", "base">>

\* DEFAULT_TARGET and FALLBACK_SOURCES (Path("./skills") is Path("skills")).
DEFAULT_TARGET == <<"~", ".claude", "skills">>

FALLBACK_SOURCES == <<<<"skills">>, <<"..", "skills">>>>

\* Path.expanduser()
ExpandUser(p) == IF p # << >> /\ p[1] = "~" THEN Home \o Tail(p) ELSE p

\* Path.resolve() where no component is a symbolic link: each ".." takes
\* the component before it away.
RECURSIVE ResolveDots(_, _)
ResolveDots(done, rest) ==
    IF rest = << >> THEN done
    ELSE IF Head(rest) = ".."
         THEN ResolveDots(IF done = << >> THEN done ELSE SubSeq(done, 1, Len(done) - 1),
                          Tail(rest))
    ELSE ResolveDots(Append(done, Head(rest)), Tail(rest))

\* The places the command line can name, and what is found at each.
CliPaths == {<<"w", "base", "skills">>, <<"w", "skills">>, <<"w", "custom">>, <<"home", "s">>}

KindAt(kinds, p) == IF p \in DOMAIN kinds THEN kinds[p] ELSE "absent"

\* Path.exists()
PathExists(kinds, p) == KindAt(kinds, ResolveDots(<< >>, p)) # "absent"

\* What a call yields: the exception raised ("none" if it returned), the two
\* paths returned, and the paths the message of the exception names.
Resolved(r, s, t, tried) == [raised |-> r, source |-> s, target |-> t, tried |-> tried]

\* _find_source_with_fallbacks(base_dir)
FindSourceWithFallbacks(kinds, base_dir) ==
    LET candidate(i) == ResolveDots(<< >>, base_dir \o FALLBACK_SOURCES[i])
    IN  IF PathExists(kinds, candidate(1)) THEN Resolved("none", candidate(1), NoArg, << >>)
        ELSE IF PathExists(kinds, candidate(2)) THEN Resolved("none", candidate(2), NoArg, << >>)
        ELSE Resolved("FileNotFoundError", NoArg, NoArg,
                      <<base_dir \o FALLBACK_SOURCES[1], base_dir \o FALLBACK_SOURCES[2]>>)

\* resolve_source_target(source_dir, target_dir, base_dir)
ResolveSourceTarget(kinds, source_dir, target_dir, base_dir) ==
    LET resolved_target == IF target_dir = NoArg THEN ExpandUser(DEFAULT_TARGET)
                           ELSE ExpandUser(target_dir)
        found == FindSourceWithFallbacks(kinds, base_dir)
    IN  IF source_dir # NoArg
        THEN IF ~PathExists(kinds, ExpandUser(source_dir))
             THEN Resolved("FileNotFoundError", NoArg, NoArg, <<ExpandUser(source_dir)>>)
             ELSE Resolved("none", ExpandUser(source_dir), resolved_target, << >>)
        ELSE IF found.raised # "none" THEN found
        ELSE Resolved("none", found.source, resolved_target, << >>)

SourceArgs == {NoArg, <<"w", "custom">>, <<"~", "s">>}

TargetArgs == {NoArg, <<"w", "t">>, <<"~", "t">>}

InitCli ==
    /\ cli \in [source : SourceArgs, target : TargetArgs,
                kinds : [CliPaths -> {"absent", "file", "dir"}]]
    /\ last = [op |-> "none"] @@ Resolved("none", NoArg, NoArg, << >>)
    /\ src = Unused
    /\ tgt = Unused
    /\ prev = Unused
    /\ calls = Unused
    /\ probe = Unused
    /\ pc = Unused
    /\ cache = Unused

ResolveArgs ==
    /\ last' = [op |-> "resolve"]
                  @@ ResolveSourceTarget(cli.kinds, cli.source, cli.target, BaseDir)
    /\ UNCHANGED <<src, tgt, prev, calls, probe, pc, cache, cli>>

FindFallback ==
    /\ last' = [op |-> "find"] @@ FindSourceWithFallbacks(cli.kinds, BaseDir)
    /\ UNCHANGED <<src, tgt, prev, calls, probe, pc, cache, cli>>

NextCli == ResolveArgs \/ FindFallback

SpecCli == InitCli /\ [][NextCli]_vars

\* ------------------------------------------------------------------------
\* C29
\* ------------------------------------------------------------------------
\* C29: an explicit source is returned as given (its ~ expanded) when it
\* exists, and FileNotFoundError is raised when it does not, whatever the
\* fallbacks hold; with no explicit source the first existing directory of
\* base/skills, base/../skills is returned, and FileNotFoundError naming
\* both is raised when neither is an existing directory; the target returned
\* is the explicit one (its ~ expanded) or else ~/.claude/skills, whatever
\* the source is.
C29_SourceResolution ==
    last.op = "resolve"
        => /\ cli.source # NoArg
                => IF PathExists(cli.kinds, ExpandUser(cli.source))
                   THEN last.raised = "none" /\ last.source = ExpandUser(cli.source)
                   ELSE last.raised = "FileNotFoundError"
           /\ cli.source = NoArg
                => IF KindAt(cli.kinds, <<"w", "base", "skills">>) = "dir"
                   THEN last.raised = "none" /\ last.source = <<"w", "base", "skills">>
                   ELSE IF KindAt(cli.kinds, <<"w", "skills">>) = "dir"
                        THEN last.raised = "none" /\ last.source = <<"w", "skills">>
                   ELSE /\ last.raised = "FileNotFoundError"
                        /\ last.tried = <<<<"w", "base", "skills">>,
                                          <<"w", "base", "..", "skills">>>>
           /\ last.raised = "none"
                => last.target = IF cli.target = NoArg THEN <<"home", ".claude", "skills">>
                                 ELSE ExpandUser(cli.target)


\* ========================================================================
\* tui.py: the presenter and the list it holds
\* ========================================================================
\* self.skills[row].status = status
WithStatus(skills, row, status) == [skills EXCEPT ![row].status = status]

\* self.notify(message, title=..., severity=...), with the method of the
\* manager the handler called before it ("none" when it called none).
Notification(title, severity, invoked) ==
    [title |-> title, severity |-> severity, invoked |-> invoked]

\* on_mount has run: the manager is constructed and the list is the first
\* scan of the trees.
InitTui ==
    /\ src \in {f \in [Names -> UNION {SourceEntries(n) : n \in Names}] :
                    \A n \in Names : f[n] \in SourceEntries(n)}
    /\ tgt \in {f \in [Names -> UNION {TargetEntries(n) : n \in Names}] :
                    \A n \in Names : f[n] \in TargetEntries(n)}
    /\ cache = ScanSkills(src, tgt)
    /\ last = Call("mount", "-", "-", Notification("none", "none", "scan_skills"), src, tgt)
    /\ calls = 0
    /\ prev = Unused
    /\ probe = Unused
    /\ pc = Unused
    /\ cli = Unused

\* The branch taken after the call: success, the else branch of a False, or
\* the except clause of whatever was raised.
NotifyResult(ret, invoked) ==
    IF ret = "True" THEN Notification("Success", "information", invoked)
    ELSE Notification("Error", "error", invoked)

\* Pressed that writes the new status into the row before it looks at what
\* the manager returned.
PressedOptimistic(op, row, x, out, status, shown) ==
    /\ calls < MaxCalls
    /\ calls' = calls + 1
    /\ src' = out.src
    /\ tgt' = out.tgt
    /\ cache' = WithStatus(cache, row, status)
    /\ last' = Call(op, x, out.ret, shown, src, tgt)
    /\ UNCHANGED <<prev, probe, pc, cli>>

\* What a key press does with the highlighted row: the manager's call out,
\* made on skill x, the status written into the row when it returns True,
\* and the notification shown.
Pressed(op, row, x, out, status, shown) ==
    /\ calls < MaxCalls
    /\ calls' = calls + 1
    /\ src' = out.src
    /\ tgt' = out.tgt
    /\ cache' = IF out.ret = "True" THEN WithStatus(cache, row, status) ELSE cache
    /\ last' = Call(op, x, out.ret, shown, src, tgt)
    /\ UNCHANGED <<prev, probe, pc, cli>>

\* ToggleStatus without the test for an unmanaged row: whatever is not
\* ACTIVE is activated.
ToggleStatusNoGuard(row) ==
    LET skill == cache[row]
    IN  IF skill.status = ACTIVE
        THEN LET out == DeactivateSkill(src, tgt, skill.name)
             IN  Pressed("toggle", row, skill.name, out, INACTIVE,
                         NotifyResult(out.ret, "deactivate_skill"))
        ELSE LET out == ActivateSkill(src, tgt, skill.name)
             IN  Pressed("toggle", row, skill.name, out, ACTIVE,
                         NotifyResult(out.ret, "activate_skill"))

\* action_toggle_status with the cursor on row
ToggleStatus(row) ==
    LET skill == cache[row]
    IN  IF skill.status = UNMANAGED
        THEN Pressed("toggle", row, skill.name, Outcome("refused", src, tgt), UNMANAGED,
                     Notification("Cannot Toggle", "warning", "none"))
        ELSE IF skill.status = ACTIVE
             THEN LET out == DeactivateSkill(src, tgt, skill.name)
                  IN  Pressed("toggle", row, skill.name, out, INACTIVE,
                              NotifyResult(out.ret, "deactivate_skill"))
        ELSE LET out == ActivateSkill(src, tgt, skill.name)
             IN  Pressed("toggle", row, skill.name, out, ACTIVE,
                         NotifyResult(out.ret, "activate_skill"))

\* action_manage_skill with the cursor on row
ManageRow(row) ==
    LET skill == cache[row]
    IN  IF skill.status # UNMANAGED
        THEN Pressed("manage", row, skill.name, Outcome("refused", src, tgt), skill.status,
                     Notification("Already Managed", "information", "none"))
        ELSE LET out == ManageSkill(src, tgt, skill.name)
             IN  Pressed("manage", row, skill.name, out, ACTIVE,
                         NotifyResult(out.ret, "manage_skill"))

\* action_refresh
Refresh ==
    /\ calls < MaxCalls
    /\ calls' = calls + 1
    /\ cache' = ScanSkills(src, tgt)
    /\ last' = Call("refresh", "-", "-",
                     Notification("Refresh complete", "information", "scan_skills"), src, tgt)
    /\ UNCHANGED <<src, tgt, prev, probe, pc, cli>>

NextTui ==
    \/ \E row \in DOMAIN cache : ToggleStatus(row)
    \/ \E row \in DOMAIN cache : ManageRow(row)
    \/ Refresh

SpecTui == InitTui /\ [][NextTui]_vars

\* ------------------------------------------------------------------------
\* C30
\* ------------------------------------------------------------------------
\* The names of a list with the status each carries.
Statuses(skills) == {<<skills[i].name, skills[i].status>> : i \in DOMAIN skills}

\* C30: after every sequence of toggle, manage and refresh the names in the
\* presenter's list and the status held for each are those a fresh scan of
\* the trees returns.
C30_CacheAgreesWithScan == Statuses(cache) = Statuses(ScanSkills(src, tgt))


\* ------------------------------------------------------------------------
\* C31
\* ------------------------------------------------------------------------
\* A key press that made a call on the manager.
OperationPressed ==
    /\ calls' = calls + 1
    /\ last'.op \in {"toggle", "manage"}
    /\ last'.result.invoked # "none"

\* C31: the presenter changes a cached status only after the manager's
\* operation returned True: when the operation returns False or raises, the
\* cached status of every skill is unchanged and an error notification is
\* shown, and the success notification is shown for True alone.
C31_StatusOnlyAfterTrue ==
    [][OperationPressed
          => /\ last'.ret # "True"
                  => /\ cache' = cache
                     /\ last'.result.title = "Error"
                     /\ last'.result.severity = "error"
             /\ cache' # cache => last'.ret = "True"
             /\ last'.result.title = "Success" => last'.ret = "True"]_vars

\* A toggle of a row held INACTIVE was answered with an exception: the error
\* is shown and the row is still INACTIVE.
C31_Witness ==
    /\ last.op = "toggle"
    /\ last.result.invoked = "activate_skill"
    /\ last.ret \notin {"True", "False"}
    /\ last.result.title = "Error"
    /\ ReportedStatus(cache, last.name) = INACTIVE

\* ------------------------------------------------------------------------
\* C32
\* ------------------------------------------------------------------------
\* A key press the presenter has to refuse: Space on a row held UNMANAGED,
\* m on a row held ACTIVE or INACTIVE.
InapplicablePressed ==
    /\ calls' = calls + 1
    /\ \/ last'.op = "toggle" /\ ReportedStatus(cache, last'.name) = UNMANAGED
       \/ last'.op = "manage" /\ ReportedStatus(cache, last'.name) \in {ACTIVE, INACTIVE}

\* C32: toggling a skill held UNMANAGED calls neither activate_skill nor
\* deactivate_skill, and the manage command on a skill held ACTIVE or
\* INACTIVE does not call manage_skill; both trees and the list the
\* presenter holds stay as they were.
C32_RefusedWithoutCall ==
    [][InapplicablePressed
          => /\ last'.result.invoked = "none"
             /\ src' = src
             /\ tgt' = tgt
             /\ cache' = cache]_vars

\* Space was pressed on a row held UNMANAGED whose source path is missing,
\* where activate_skill would have raised; no call was made.
C32_Witness ==
    /\ last.op = "toggle"
    /\ ReportedStatus(cache, last.name) = UNMANAGED
    /\ last.result.title = "Cannot Toggle"
    /\ last.result.invoked = "none"
    /\ src = last.srcBefore
    /\ tgt = last.tgtBefore


\* ------------------------------------------------------------------------
\* C33
\* ------------------------------------------------------------------------
\* The last call was activate_skill, deactivate_skill or manage_skill.
OperationCalled == last.op \in {"activate", "deactivate", "manage"}

\* The entries at source_dir/y and target_dir/y are those the call found.
EntriesKept(y) == src[y] = last.srcBefore[y] /\ tgt[y] = last.tgtBefore[y]

\* Before the call the path of y in one of the trees led, through the links
\* on the way, to source_dir/x or below it.
LeadsIntoSourceOf(x, y) ==
    \E root \in {"src", "tgt"} :
        LET r == Resolve(last.srcBefore, last.tgtBefore, <<root, y>>)
        IN  r # LoopPath /\ IsPrefix(SourcePath(x), r)

AdoptingTargetOnly ==
    /\ last.op = "manage"
    /\ ~Exists(last.srcBefore, last.tgtBefore, SourcePath(last.name))
    /\ last.tgtBefore[last.name].kind = "dir"
    /\ last.name \in GetDirectories(last.srcBefore, last.tgtBefore, "tgt")

\* The directory the call found at target_dir/x is, whole, at root/x: the
\* path leads to that directory and no child has been removed from it.
HoldsTheSkill(root) ==
    /\ RealEntry(src, tgt, <<root, last.name>>)
           = RealEntry(last.srcBefore, last.tgtBefore, TargetPath(last.name))
    /\ (root = "tgt" /\ tgt[last.name].kind = "dir") => pc.gone = {}

\* C34: at every step of manage_skill(x) in the target-only case (before the
\* move, during it, between the move and the making of the link, and after)
\* the skill directory with its manifest exists whole at target_dir/x or at
\* source_dir/x, also when the call has raised or was interrupted there.
C34_AdoptionKeepsContents ==
    AdoptingTargetOnly => HoldsTheSkill("tgt") \/ HoldsTheSkill("src")

\* The adoption was interrupted between the move and the making of the link:
\* nothing is at target_dir/x and the directory is at source_dir/x.
C34_Witness ==
    /\ AdoptingTargetOnly
    /\ pc.at = "killed"
    /\ pc.was = "symlink"
    /\ tgt[last.name] = Absent
    /\ src[last.name] = last.tgtBefore[last.name]


\* ========================================================================
\* Links of every kind in the target tree
\* ========================================================================
\* What a link found in the target tree may hold besides LinkDests: the path
\* of another entry of the target tree, or the bare name of an entry of its
\* own directory.
LocalLinkDests == {TargetPath(n) : n \in Names} \cup {<<".", n>> : n \in Names}

\* A symbolic link that leads nowhere.
BrokenLink(s, t, p) == IsSymlink(s, t, p) /\ ~Exists(s, t, p)

\* __init__ has run on a target tree that holds no broken link.
InitLinks ==
    /\ src \in {f \in [Names -> UNION {SourceEntries(n) : n \in Names}] :
                    \A n \in Names : f[n] \in SourceEntries(n)}
    /\ tgt \in [Names -> UNION {TargetEntries(n) : n \in Names}
                            \cup {Link(d) : d \in LocalLinkDests}]
    /\ \A n \in Names : tgt[n].kind \in {"dir", "file"} => tgt[n].origin = TargetPath(n)
    /\ \A n \in Names : ~BrokenLink(src, tgt, TargetPath(n))
    /\ last = Call("none", "-", "-", << >>, src, tgt)
    /\ prev = last
    /\ calls = 0
    /\ probe = Unused
    /\ pc = Unused
    /\ cache = Unused
    /\ cli = Unused

NextLinks ==
    \/ \E x \in Names : Activate(x)
    \/ \E x \in Names : Deactivate(x)
    \/ \E x \in Names : Manage(x)

SpecLinks == InitLinks /\ [][NextLinks]_vars

\* ------------------------------------------------------------------------
\* C35
\* ------------------------------------------------------------------------
\* The link activate_skill(n) and manage_skill(n) make: at target_dir/n,
\* holding source_dir/n.
ManagerLink(n) == tgt[n] = Link(SourcePath(n))

\* C35: starting with no broken link in the target tree, after any sequence
\* of completed activate_skill, deactivate_skill and manage_skill calls no
\* link of the manager's making in the target tree is dangling: each leads
\* to something that exists at source_dir/name.
C35_NoDanglingLink ==
    \A n \in Names : ManagerLink(n) => Exists(src, tgt, TargetPath(n))

====
